---- MODULE Spec2Model ----
(***************************************************************************)
(* A model of bsfh/sedmodel.py: ThetaParameters (the mapping between a    *)
(* flat theta vector and the named parameter blocks of theta_desc, the    *)
(* prior product and its gradient, the reflection of check_constrained,   *)
(* bounds()) and SedModel (lnprob, lnprob_grad).                          *)
(*                                                                         *)
(* Numbers are exact integers: a float that the arithmetic of the code    *)
(* represents exactly.  Python indices are 0-based and sequences here are *)
(* 1-based: index k of the code is position k + 1 of a sequence.          *)
(***************************************************************************)
EXTENDS Integers, Sequences, FiniteSets, TLC

\* The largest ndim (sum of the block lengths N) of a descriptor.
MaxDim == 2
\* The largest |component| of a position vector given to check_constrained.
MaxTheta == 3

\* The keys of theta_desc.  'mass' is the key lnprob_grad looks for.
Names == {"mass", "dust"}
\* Components of the flat vectors given to set_parameters.
MapVals == {0, 1}
\* Components of the flat vectors given to the prior and posterior methods:
\* outside the support of both priors, on its edge and inside it.
PriorVals == {-1, 0, 1}
\* The log-likelihood terms the model collaborator's spectrum and photometry
\* give, and the gradient terms its components give.
LikVals == {-1, 0}
GradVals == {0, 1}

VARIABLES
    theta_desc,  \* self.theta_desc: key -> block (a record; optional keys absent)
    iteritems,   \* the order in which theta_desc.iteritems() yields the keys
    ndim,        \* self.ndim
    params,      \* self.params: key -> sequence
    obs,         \* self.obs: which of obs['spectrum'], obs['filters'] is not None
    pc,          \* position inside check_constrained: "idle" or "while"
    theta,       \* check_constrained: the array theta, updated in place
    sign,        \* check_constrained: the array sign
    oob,         \* check_constrained: the flag oob
    nrefl,       \* history: the number of reflections applied to each component
    call,        \* history: the method last called and its argument
    ret,         \* what the last call returned
    err,         \* the exception the last call raised, or "none"
    invoked      \* whether the last call invoked the sps collaborator

vars == <<theta_desc, iteritems, ndim, params, obs, pc, theta, sign, oob,
          nrefl, call, ret, err, invoked>>

-----------------------------------------------------------------------------
(* Python and numpy helpers *)

Min(a, b) == IF a < b THEN a ELSE b

\* s[start:end] of Python, for 0 <= start, end: clipped to the length of s.
Slice(s, start, end) == SubSeq(s, start + 1, Min(end, Len(s)))

\* The off-by-one slice s[start:end-1].
SliceShort(s, start, end) == SubSeq(s, start + 1, Min(end - 1, Len(s)))

\* s after the numpy assignment s[start:start+len(vals)] = vals.
SliceAssign(s, start, vals) ==
    [i \in 1..Len(s) |->
        IF start < i /\ i <= start + Len(vals) THEN vals[i - start] ELSE s[i]]

\* n * [x] of Python, np.zeros(n), np.ones(n).
Repeat(n, x) == [i \in 1..n |-> x]

\* All sequences over S of a length in lens.
SeqsOf(S, lens) == UNION {[1..n -> S] : n \in lens}

\* All orders of the finite set S, as sequences.
Orders(S) == {s \in [1..Cardinality(S) -> S] : \A i, j \in 1..Cardinality(S) : s[i] = s[j] => i = j}

\* A numpy-compatible value: a Python scalar or a 1-d array.
Scalar(x) == [shape |-> "scalar", data |-> <<x>>]
Vector(s) == [shape |-> "vector", data |-> s]
\* np.size(a)
Size(a) == IF a.shape = "scalar" THEN 1 ELSE Len(a.data)

NoRet == [kind |-> "none"]
NoCall == [op |-> "none", theta |-> << >>]

-----------------------------------------------------------------------------
(* Descriptors *)

\* A record with no field: the optional keys of a block that has none.
NoKeys == [k \in {} |-> 0]

\* The sum of v['N'] over the blocks of d (ThetaParameters.__init__).
RECURSIVE SumN(_, _)
SumN(d, S) ==
    IF S = {} THEN 0
    ELSE LET p == CHOOSE q \in S : TRUE IN d[p].N + SumN(d, S \ {p})

Ndim(d) == SumN(d, DOMAIN d)

\* The indices (0-based) of the slice [i0, i0 + N) of block v.
Owned(v) == v.i0 .. (v.i0 + v.N - 1)

\* The slices of d partition [0, ndim): no gap, no overlap.
IsPartition(d) ==
    /\ \A p \in DOMAIN d : Owned(d[p]) \subseteq 0..(Ndim(d) - 1)
    /\ \A p, q \in DOMAIN d : p # q => Owned(d[p]) \cap Owned(d[q]) = {}

\* prior_args with scalar 'mini' and 'maxi', with vector ones (mini[k] = -k,
\* maxi[k] = k + 1), and without them.
ScalarArgs == [mini |-> Scalar(0), maxi |-> Scalar(1)]
VectorArgs(N) == [mini |-> Vector([k \in 1..N |-> 1 - k]), maxi |-> Vector([k \in 1..N |-> k])]
NoArgs == NoKeys

\* The blocks of the descriptors of each specification: their slice, prior
\* function and prior_args, and the optional keys in opt.
BlockOf(i0, N, fn, pa, opt) ==
    [i0 |-> i0, N |-> N, prior_function |-> fn, prior_args |-> pa] @@ opt

\* Blocks for the mapping methods: any slice, every kind of prior_args.
MapBlocks ==
    {BlockOf(i0, N, "tophat", pa, NoKeys) :
        i0 \in 0..(MaxDim - 1), N \in 1..MaxDim, pa \in {ScalarArgs, NoArgs}}
    \cup {BlockOf(i0, N, "tophat", VectorArgs(N), NoKeys) :
        i0 \in 0..(MaxDim - 1), N \in 1..MaxDim}

\* The descriptors over blocks B with ndim <= MaxDim.
DescriptorsOver(B) ==
    {d \in UNION {[S -> B] : S \in (SUBSET Names) \ {{}}} : Ndim(d) <= MaxDim}

-----------------------------------------------------------------------------
(* ThetaParameters: the mapping between theta and params *)

\* set_parameters with the slice end = i0 + N - 1.
set_parameters_short(th) ==
    IF Len(th) # ndim
    THEN [err |-> "AssertionError", params |-> params]
    ELSE [err |-> "none",
          params |-> [p \in DOMAIN params \cup DOMAIN theta_desc |->
                        IF p \in DOMAIN theta_desc
                        THEN SliceShort(th, theta_desc[p].i0, theta_desc[p].i0 + theta_desc[p].N)
                        ELSE params[p]]]

\* set_parameters without its assertion: the slices clip silently.
set_parameters_unchecked(th) ==
    [err |-> "none",
     params |-> [p \in DOMAIN params \cup DOMAIN theta_desc |->
                   IF p \in DOMAIN theta_desc
                   THEN Slice(th, theta_desc[p].i0, theta_desc[p].i0 + theta_desc[p].N)
                   ELSE params[p]]]

\* set_parameters(theta): the exception raised and self.params afterwards.
set_parameters(th) ==
    IF Len(th) # ndim
    THEN [err |-> "AssertionError", params |-> params]
    ELSE [err |-> "none",
          params |-> [p \in DOMAIN params \cup DOMAIN theta_desc |->
                        IF p \in DOMAIN theta_desc
                        THEN Slice(th, theta_desc[p].i0, theta_desc[p].i0 + theta_desc[p].N)
                        ELSE params[p]]]

\* The loop of theta_from_params over the keys ks, in order, from vector acc.
RECURSIVE FromParamsLoop(_, _)
FromParamsLoop(acc, ks) ==
    IF ks = << >> THEN acc
    ELSE FromParamsLoop(SliceAssign(acc, theta_desc[Head(ks)].i0, params[Head(ks)]),
                        Tail(ks))

\* theta_from_params(): the exception raised and the vector returned.
theta_from_params ==
    IF \E p \in DOMAIN theta_desc : p \notin DOMAIN params
    THEN [err |-> "KeyError", ret |-> NoRet]
    ELSE [err |-> "none",
          ret |-> [kind |-> "vector", v |-> FromParamsLoop(Repeat(ndim, 0), iteritems)]]

\* The loop of bounds() over the keys ks, in order, from the list b.
RECURSIVE BoundsLoop(_, _)
BoundsLoop(b, ks) ==
    IF ks = << >> THEN [err |-> "none", b |-> b]
    ELSE LET v == theta_desc[Head(ks)]
             pa == v.prior_args
         IN IF "mini" \notin DOMAIN pa THEN [err |-> "KeyError", b |-> b]
            ELSE IF Size(pa.mini) = 1
            THEN IF v.i0 >= Len(b) THEN [err |-> "IndexError", b |-> b]
                 ELSE BoundsLoop([b EXCEPT ![v.i0 + 1] = <<pa.mini, pa.maxi>>], Tail(ks))
            ELSE IF v.i0 + Size(pa.mini) > Len(b) THEN [err |-> "IndexError", b |-> b]
                 ELSE BoundsLoop(
                        [i \in 1..Len(b) |->
                            IF v.i0 < i /\ i <= v.i0 + Size(pa.mini)
                            THEN <<Scalar(pa.mini.data[i - v.i0]), Scalar(pa.maxi.data[i - v.i0])>>
                            ELSE b[i]],
                        Tail(ks))

\* bounds(): the exception raised and the list returned.
bounds ==
    LET r == BoundsLoop(Repeat(ndim, <<Scalar(0), Scalar(0)>>), iteritems)
    IN [err |-> r.err,
        ret |-> IF r.err = "none" THEN [kind |-> "bounds", b |-> r.b] ELSE NoRet]

-----------------------------------------------------------------------------
(* The calls of the mapping methods *)

\* The variables only check_constrained writes.
reflectVars == <<pc, theta, sign, oob, nrefl>>
\* The variables only the constructor and add_obs write.
configVars == <<theta_desc, iteritems, ndim, obs>>

CallSetParameters ==
    \E th \in SeqsOf(MapVals, 0..(MaxDim + 1)) :
        /\ pc = "idle"
        /\ Len(th) \in (ndim - 1)..(ndim + 1)
        /\ call' = [op |-> "set_parameters", theta |-> th]
        /\ params' = set_parameters(th).params
        /\ err' = set_parameters(th).err
        /\ ret' = NoRet
        /\ invoked' = FALSE
        /\ UNCHANGED <<configVars, reflectVars>>

CallThetaFromParams ==
    /\ pc = "idle"
    /\ call' = [op |-> "theta_from_params", theta |-> << >>]
    /\ err' = theta_from_params.err
    /\ ret' = theta_from_params.ret
    /\ invoked' = FALSE
    /\ UNCHANGED <<configVars, reflectVars, params>>

CallBounds ==
    /\ pc = "idle"
    /\ call' = [op |-> "bounds", theta |-> << >>]
    /\ err' = bounds.err
    /\ ret' = bounds.ret
    /\ invoked' = FALSE
    /\ UNCHANGED <<configVars, reflectVars, params>>

\* Before the constructor has run there is no object: nothing can be called.
Init ==
    /\ pc = "new"
    /\ theta_desc = NoKeys
    /\ iteritems = << >>
    /\ ndim = 0
    /\ params = NoKeys
    /\ obs = [spectrum |-> FALSE, filters |-> FALSE]
    /\ theta = << >>
    /\ sign = << >>
    /\ oob = FALSE
    /\ nrefl = << >>
    /\ call = NoCall
    /\ ret = NoRet
    /\ err = "none"
    /\ invoked = FALSE

\* ThetaParameters(theta_desc=d, **kw) followed by add_obs(o): the descriptor,
\* the order its dict iterates in, ndim, the keyword parameters and obs.
Construct(d, kw, o) ==
    /\ pc = "new"
    /\ pc' = "idle"
    /\ theta_desc' = d
    /\ iteritems' \in Orders(DOMAIN d)
    /\ ndim' = Ndim(d)
    /\ params' = kw
    /\ obs' = o
    /\ UNCHANGED <<theta, sign, oob, nrefl, call, ret, err, invoked>>

BothObs == [spectrum |-> TRUE, filters |-> TRUE]

\* The descriptors of the mapping methods: partitions and not.
MapDescriptors == DescriptorsOver(MapBlocks)

ConstructMap ==
    /\ pc = "new"
    /\ \E d \in MapDescriptors : Construct(d, NoKeys, BothObs)

Next == ConstructMap \/ CallSetParameters \/ CallThetaFromParams \/ CallBounds

Spec == Init /\ [][Next]_vars

-----------------------------------------------------------------------------
(* Claims about the mapping methods *)

\* C1: round trip. For a descriptor whose slices [i0, i0 + N) partition
\* [0, ndim) and a flat vector v of length ndim, a theta_from_params() called
\* right after set_parameters(v) returns v, component by component.
C1_RoundTrip ==
    [][(/\ call.op = "set_parameters" /\ err = "none"
        /\ IsPartition(theta_desc)
        /\ call'.op = "theta_from_params")
       => (err' = "none" /\ ret'.kind = "vector" /\ ret'.v = call.theta)]_vars

\* C1 witness: a two-block partition whose round trip returned a vector with
\* different components.
C1_Witness ==
    /\ call.op = "theta_from_params" /\ err = "none"
    /\ IsPartition(theta_desc) /\ Cardinality(DOMAIN theta_desc) = 2
    /\ ret.v = <<0, 1>>

\* C7: shape mismatch. set_parameters with a vector whose length is not ndim
\* raises, and leaves every entry of params as it was.
C7_ShapeMismatch ==
    [][(call'.op = "set_parameters" /\ Len(call'.theta) # ndim)
       => (err' = "AssertionError" /\ params' = params)]_vars

\* C7 witness: a refused vector, with params holding an earlier vector.
C7_Witness ==
    /\ call.op = "set_parameters" /\ Len(call.theta) # ndim
    /\ err = "AssertionError"
    /\ DOMAIN params = DOMAIN theta_desc
    /\ \E p \in DOMAIN params : params[p] = <<1>>

\* C9: bounds() returns ndim pairs; a block with scalar 'mini' and 'maxi' has
\* (mini, maxi) at each of its N indices, a block with vector ones has
\* (mini[k], maxi[k]) at index i0 + k.
C9_Bounds ==
    (call.op = "bounds" /\ err = "none" /\ IsPartition(theta_desc))
        => /\ ret.kind = "bounds"
           /\ Len(ret.b) = ndim
           /\ \A p \in DOMAIN theta_desc : \A j \in 1..theta_desc[p].N :
                LET pa == theta_desc[p].prior_args
                    got == ret.b[theta_desc[p].i0 + j]
                IN <<got[1].data, got[2].data>> =
                       IF pa.mini.shape = "scalar"
                       THEN <<pa.mini.data, pa.maxi.data>>
                       ELSE <<(<<pa.mini.data[j]>>), (<<pa.maxi.data[j]>>)>>

-----------------------------------------------------------------------------
(* ThetaParameters.check_constrained *)

\* The optional keys 'upper' and 'lower' of a block: none, one of them, an
\* interval of width 1 and one of width 2, and the degenerate interval
\* upper = lower.
BoundOpts ==
    {NoKeys,
     "upper" :> 1,
     "lower" :> 0,
     ("lower" :> 0) @@ ("upper" :> 1),
     ("lower" :> 0) @@ ("upper" :> 2),
     ("lower" :> 1) @@ ("upper" :> 1)}

\* Blocks for check_constrained.
ReflectBlocks ==
    {BlockOf(i0, N, "tophat", ScalarArgs, opt) :
        i0 \in 0..(MaxDim - 1), N \in 1..MaxDim, opt \in BoundOpts}

\* A count of reflections is kept up to ReflCap, and beyond it only its parity:
\* the code keeps no count at all, it is what the claims speak about.
ReflCap == MaxTheta

Counted(n) == IF n < ReflCap THEN n + 1 ELSE n - 1

\* numpy applies lines 98-106 to each component of the slice on its own: c is
\* one component, its value x, its entry s of sign, the number n of its
\* reflections so far and whether it set oob in this scan.

\* Lines 98-101 with sign[...][above] = -1 in place of *= -1.
ReflectUpperSet(c, v) ==
    IF c.x > v.upper
    THEN [x |-> 2 * v.upper - c.x, s |-> -1, n |-> Counted(c.n), hit |-> TRUE]
    ELSE c

\* Lines 98-101: a component above 'upper' is reflected and sets oob.
ReflectUpper(c, v) ==
    IF c.x > v.upper
    THEN [x |-> 2 * v.upper - c.x, s |-> -c.s, n |-> Counted(c.n), hit |-> TRUE]
    ELSE c

\* Lines 103-106 without line 104: a reflection off 'lower' does not set oob.
ReflectLowerQuiet(c, v) ==
    IF c.x < v.lower
    THEN [x |-> 2 * v.lower - c.x, s |-> -c.s, n |-> Counted(c.n), hit |-> c.hit]
    ELSE c

\* Lines 103-106: a component below 'lower' is reflected and sets oob.
ReflectLower(c, v) ==
    IF c.x < v.lower
    THEN [x |-> 2 * v.lower - c.x, s |-> -c.s, n |-> Counted(c.n), hit |-> TRUE]
    ELSE c

\* Lines 96-106: the body of the for loop for block v, on the component at
\* index i (0-based) of a vector of length n.
ScanBlock(c, i, v) ==
    IF v.i0 <= i /\ i < v.i0 + v.N
    THEN LET up == IF "upper" \in DOMAIN v THEN ReflectUpper(c, v) ELSE c
         IN IF "lower" \in DOMAIN v THEN ReflectLower(up, v) ELSE up
    ELSE c

\* Lines 95-106: the for loop over the keys ks, in order.
RECURSIVE ScanLoop(_, _, _)
ScanLoop(c, i, ks) ==
    IF ks = << >> THEN c
    ELSE ScanLoop(ScanBlock(c, i, theta_desc[Head(ks)]), i, Tail(ks))

\* Lines 90-92: the call, up to the head of the while loop.  The method reads
\* the descriptor and writes only its argument and its locals, so a later call
\* on the same object behaves as the first: one call per object is followed.
CallCheckConstrained ==
    \E th \in [1..ndim -> (-MaxTheta)..MaxTheta] :
        /\ pc = "idle"
        /\ call = NoCall
        /\ call' = [op |-> "check_constrained", theta |-> th]
        /\ theta' = th
        /\ sign' = Repeat(Len(th), 1)
        /\ oob' = TRUE
        /\ nrefl' = Repeat(Len(th), 0)
        /\ pc' = "while"
        /\ ret' = NoRet
        /\ err' = "none"
        /\ invoked' = FALSE
        /\ UNCHANGED <<configVars, params>>

\* Lines 93-94: the while test succeeds and oob is reset.
WhileHead ==
    /\ pc = "while"
    /\ oob
    /\ oob' = FALSE
    /\ pc' = "for"
    /\ UNCHANGED <<configVars, params, theta, sign, nrefl, call, ret, err, invoked>>

\* Lines 95-106: the for loop, a scan of all the blocks, back to the while
\* test.
ForLoop ==
    /\ pc = "for"
    /\ LET after == [i \in 1..Len(theta) |->
                       ScanLoop([x |-> theta[i], s |-> sign[i], n |-> nrefl[i], hit |-> oob],
                                i - 1, iteritems)]
       IN /\ theta' = [i \in 1..Len(theta) |-> after[i].x]
          /\ sign' = [i \in 1..Len(theta) |-> after[i].s]
          /\ nrefl' = [i \in 1..Len(theta) |-> after[i].n]
          /\ oob' = (\E i \in 1..Len(theta) : after[i].hit)
    /\ pc' = "while"
    /\ UNCHANGED <<configVars, params, call, ret, err, invoked>>

\* Lines 93, 107-108: the loop ends and the call returns theta, sign, oob.
Return ==
    /\ pc = "while"
    /\ ~oob
    /\ pc' = "idle"
    /\ ret' = [kind |-> "reflect", theta |-> theta, sign |-> sign, oob |-> oob]
    /\ UNCHANGED <<configVars, params, theta, sign, oob, nrefl, call, err, invoked>>

\* The descriptors of check_constrained: the partitions of [0, ndim).  The loop
\* at line 95 never uses the key p, only the block v and the order in which the
\* blocks come: the block at index 0 is named 'mass', the order stays free.
ReflectDescriptors ==
    {d \in DescriptorsOver(ReflectBlocks) :
        IsPartition(d) /\ "mass" \in DOMAIN d /\ d["mass"].i0 = 0}

ConstructReflect ==
    /\ pc = "new"
    /\ \E d \in ReflectDescriptors : Construct(d, NoKeys, BothObs)

NextReflect ==
    ConstructReflect \/ CallCheckConstrained \/ WhileHead \/ ForLoop \/ Return

\* The interpreter runs a started call on: each of its steps is taken once it
\* is the next one.
SpecReflect ==
    Init /\ [][NextReflect]_vars /\ WF_vars(WhileHead \/ ForLoop \/ Return)

-----------------------------------------------------------------------------
(* Claims about check_constrained *)

Returned == call.op = "check_constrained" /\ pc = "idle"

\* Every block with both bounds has lower < upper.
NonDegenerate ==
    \A p \in DOMAIN theta_desc :
        {"upper", "lower"} \subseteq DOMAIN theta_desc[p]
            => theta_desc[p].lower < theta_desc[p].upper

\* Every component of th respects the bounds its block defines.
InBounds(th) ==
    \A p \in DOMAIN theta_desc : \A i \in 1..Len(th) :
        (theta_desc[p].i0 < i /\ i <= theta_desc[p].i0 + theta_desc[p].N)
            => /\ "upper" \in DOMAIN theta_desc[p] => th[i] <= theta_desc[p].upper
               /\ "lower" \in DOMAIN theta_desc[p] => th[i] >= theta_desc[p].lower

\* C2: reflection convergence. With lower < upper in every block that has
\* both, a started check_constrained returns, and the vector it returns has
\* every component within the bounds of its block.
C2_Convergence ==
    /\ []((Returned /\ NonDegenerate) => InBounds(ret.theta))
    /\ ((pc \in {"while", "for"} /\ NonDegenerate) ~> (pc = "idle"))

\* C2 witness: a returned call on a block with both bounds, one component of
\* which was reflected in three successive scans.
C2_Witness ==
    /\ Returned /\ NonDegenerate
    /\ \E p \in DOMAIN theta_desc :
        /\ {"upper", "lower"} \subseteq DOMAIN theta_desc[p]
        /\ \E i \in 1..Len(nrefl) :
            /\ theta_desc[p].i0 < i /\ i <= theta_desc[p].i0 + theta_desc[p].N
            /\ nrefl[i] >= 3

\* C3: the boolean returned tells whether any component was reflected during
\* the call.
C3_ReturnedFlag ==
    Returned => (ret.oob <=> (\E i \in 1..Len(nrefl) : nrefl[i] > 0))

\* A block with both bounds and upper <= lower has a component outside them.
DegenerateOutside ==
    \E p \in DOMAIN theta_desc :
        /\ {"upper", "lower"} \subseteq DOMAIN theta_desc[p]
        /\ theta_desc[p].upper <= theta_desc[p].lower
        /\ \E i \in 1..Len(theta) :
            /\ theta_desc[p].i0 < i /\ i <= theta_desc[p].i0 + theta_desc[p].N
            /\ (theta[i] > theta_desc[p].upper \/ theta[i] < theta_desc[p].lower)

\* C4: a call that meets a degenerate interval with a component outside it
\* ends, by raising an error.
C4_DegenerateRaises ==
    (pc \in {"while", "for"} /\ DegenerateOutside) ~> (pc = "idle" /\ err # "none")

RECURSIVE Pow(_, _)
Pow(b, n) == IF n = 0 THEN 1 ELSE b * Pow(b, n - 1)

\* C10: sign parity. On return each entry of sign is (-1) to the number of
\* reflections of its component; a component that started on its upper or
\* lower bound was never reflected and kept its value and the sign +1; a
\* component that started at upper + d with 0 < d < upper - lower ends at
\* upper - d with the sign -1.
C10_SignParity ==
    Returned =>
        /\ \A i \in 1..Len(ret.sign) : ret.sign[i] = Pow(-1, nrefl[i])
        /\ \A p \in DOMAIN theta_desc : \A i \in 1..Len(ret.theta) :
            (theta_desc[p].i0 < i /\ i <= theta_desc[p].i0 + theta_desc[p].N) =>
                LET v == theta_desc[p]
                    x == call.theta[i]
                IN /\ (\/ ("upper" \in DOMAIN v /\ x = v.upper)
                       \/ ("lower" \in DOMAIN v /\ x = v.lower))
                        => (nrefl[i] = 0 /\ ret.theta[i] = x /\ ret.sign[i] = 1)
                   /\ ({"upper", "lower"} \subseteq DOMAIN v /\ x > v.upper
                         /\ x - v.upper < v.upper - v.lower)
                        => (ret.theta[i] = 2 * v.upper - x /\ ret.sign[i] = -1)

\* C10 witness: a returned call in which one component was reflected twice
\* (sign +1) and another started at upper + d, d < upper - lower (sign -1).
C10_Witness ==
    /\ Returned
    /\ \E i \in 1..Len(nrefl) : nrefl[i] = 2 /\ ret.sign[i] = 1
    /\ \E p \in DOMAIN theta_desc : \E i \in 1..Len(nrefl) :
        /\ theta_desc[p].i0 < i /\ i <= theta_desc[p].i0 + theta_desc[p].N
        /\ {"upper", "lower"} \subseteq DOMAIN theta_desc[p]
        /\ call.theta[i] > theta_desc[p].upper
        /\ call.theta[i] - theta_desc[p].upper < theta_desc[p].upper - theta_desc[p].lower
        /\ ret.sign[i] = -1

-----------------------------------------------------------------------------
(* Floats with the IEEE values the priors produce: finite, -inf, +inf, nan *)

Fin(n) == [k |-> "fin", v |-> n]
NegInf == [k |-> "ninf", v |-> 0]
PosInf == [k |-> "pinf", v |-> 0]
NaN == [k |-> "nan", v |-> 0]

\* a + b
FAdd(a, b) ==
    IF a.k = "nan" \/ b.k = "nan" THEN NaN
    ELSE IF a.k = "fin" /\ b.k = "fin" THEN Fin(a.v + b.v)
    ELSE IF a.k = "fin" THEN b
    ELSE IF b.k = "fin" THEN a
    ELSE IF a.k = b.k THEN a
    ELSE NaN

\* np.isfinite(a)
isfinite(a) == a.k = "fin"

\* np.sum of the sequence s of floats.
RECURSIVE FSum(_)
FSum(s) == IF s = << >> THEN Fin(0) ELSE FAdd(Head(s), FSum(Tail(s)))

-----------------------------------------------------------------------------
(* ThetaParameters.prior_product and lnp_prior_grad *)

\* Element j (1-based) of a prior argument a against a sub-vector.
ArgAt(a, j) == IF a.shape = "scalar" THEN a.data[1] ELSE a.data[j]

\* The prior callables are not code of this file.  Two stand for them:
\* "tophat", ln p = 0 on [mini, maxi] and -inf outside, with gradient 0, and
\* "logarithmic", ln p = -ln x (0 at 1, +inf at 0, nan below 0), with gradient
\* -1/x.  Each maps a sub-vector to a vector of the same length.
PriorFunction(fn, sub, pa) ==
    [j \in 1..Len(sub) |->
        IF fn = "tophat"
        THEN IF ArgAt(pa.mini, j) <= sub[j] /\ sub[j] <= ArgAt(pa.maxi, j)
             THEN Fin(0) ELSE NegInf
        ELSE IF sub[j] = 1 THEN Fin(0)
             ELSE IF sub[j] = 0 THEN PosInf ELSE NaN]

PriorGradientFunction(fn, sub, pa) ==
    [j \in 1..Len(sub) |->
        IF fn = "tophat" THEN Fin(0)
        ELSE IF sub[j] = 0 THEN NegInf ELSE Fin(-sub[j])]

\* Lines 64-68: the loop of prior_product over the keys ks, from lnp.
RECURSIVE PriorLoop(_, _, _)
PriorLoop(lnp, th, ks) ==
    IF ks = << >> THEN lnp
    ELSE LET v == theta_desc[Head(ks)]
         IN PriorLoop(FAdd(lnp, FSum(PriorFunction(v.prior_function,
                                                   Slice(th, v.i0, v.i0 + v.N),
                                                   v.prior_args))),
                      th, Tail(ks))

\* prior_product(theta)
prior_product(th) == PriorLoop(Fin(0), th, iteritems)

\* Lines 77-79: the loop of lnp_prior_grad over the keys ks, from the vector g.
RECURSIVE PriorGradLoop(_, _, _)
PriorGradLoop(g, th, ks) ==
    IF ks = << >> THEN [err |-> "none", ret |-> [kind |-> "vector", v |-> g]]
    ELSE LET v == theta_desc[Head(ks)]
         IN IF "prior_gradient_function" \notin DOMAIN v
            THEN [err |-> "KeyError", ret |-> NoRet]
            ELSE PriorGradLoop(
                    SliceAssign(g, v.i0,
                                PriorGradientFunction(v.prior_gradient_function,
                                                      Slice(th, v.i0, v.i0 + v.N),
                                                      v.prior_args)),
                    th, Tail(ks))

\* lnp_prior_grad(theta): the exception raised and the vector returned.
lnp_prior_grad(th) == PriorGradLoop(Repeat(Len(th), Fin(0)), th, iteritems)

-----------------------------------------------------------------------------
(* SedModel.lnprob and lnprob_grad *)

\* self.params.get(key, 0) != 0
ParamNonZero(ps, key) == key \in DOMAIN ps /\ ps[key] # <<0>>

\* lnprob that calls the model first and tests the prior afterwards.
lnprob_model_first(th, ls, lp) ==
    LET lnp_prior == prior_product(th)
        sp == set_parameters(th)
    IN IF sp.err # "none"
       THEN [err |-> sp.err, params |-> params, ret |-> NoRet, invoked |-> FALSE]
       ELSE IF ~isfinite(lnp_prior)
       THEN [err |-> "none", params |-> sp.params,
             ret |-> [kind |-> "scalar", x |-> NegInf], invoked |-> TRUE]
       ELSE [err |-> "none", params |-> sp.params,
             ret |-> [kind |-> "scalar", x |-> FAdd(Fin(ls + lp), lnp_prior)],
             invoked |-> TRUE]

\* lnprob(theta), with ls and lp the spectroscopic and photometric terms the
\* collaborator's output gives: the exception raised, self.params afterwards,
\* the value returned and whether the collaborator was invoked.  self.model is
\* mean_model: set_parameters, then sps.get_spectrum.
lnprob(th, ls, lp) ==
    LET lnp_prior == prior_product(th)
        sp == set_parameters(th)
    IN IF ~isfinite(lnp_prior)
       THEN [err |-> "none", params |-> params,
             ret |-> [kind |-> "scalar", x |-> NegInf], invoked |-> FALSE]
       ELSE IF sp.err # "none"
       THEN [err |-> sp.err, params |-> params, ret |-> NoRet, invoked |-> FALSE]
       ELSE IF \/ (obs.spectrum /\ ParamNonZero(sp.params, "jitter"))
               \/ (obs.filters /\ ParamNonZero(sp.params, "phot_jitter"))
       THEN [err |-> "NameError", params |-> sp.params, ret |-> NoRet, invoked |-> TRUE]
       ELSE [err |-> "none", params |-> sp.params,
             ret |-> [kind |-> "scalar",
                      x |-> FAdd(Fin((IF obs.spectrum THEN ls ELSE 0)
                                      + (IF obs.filters THEN lp ELSE 0)),
                                 lnp_prior)],
             invoked |-> TRUE]

\* Lines 265-302 of lnprob_grad, past its gate; dl is the gradient term the
\* collaborator's components give each mass.
GradientBody(th, dl) ==
    LET sp == set_parameters(th)
        pg == lnp_prior_grad(th)
    IN IF sp.err # "none"
       THEN [err |-> sp.err, params |-> params, ret |-> NoRet, invoked |-> FALSE]
       ELSE IF ParamNonZero(sp.params, "jitter")
       THEN [err |-> "ValueError: jitter", params |-> sp.params, ret |-> NoRet,
             invoked |-> TRUE]
       ELSE IF pg.err # "none"
       THEN [err |-> pg.err, params |-> sp.params, ret |-> NoRet, invoked |-> TRUE]
       ELSE [err |-> "none", params |-> sp.params,
             ret |-> [kind |-> "vector",
                      v |-> [i \in 1..Len(pg.ret.v) |->
                               FAdd(pg.ret.v[i],
                                    Fin((IF obs.spectrum THEN dl ELSE 0)
                                         + (IF obs.filters THEN dl ELSE 0)))]],
             invoked |-> TRUE]

\* lnprob_grad whose gate tests the length of theta alone.
lnprob_grad_length_only(th, dl) ==
    IF "mass" \notin DOMAIN theta_desc
    THEN [err |-> "KeyError", params |-> params, ret |-> NoRet, invoked |-> FALSE]
    ELSE IF ~(Len(th) = theta_desc["mass"].N)
    THEN [err |-> "ValueError: not calculated", params |-> params, ret |-> NoRet,
          invoked |-> FALSE]
    ELSE GradientBody(th, dl)

\* lnprob_grad(theta): lines 260-263 are the gate; theta_desc['mass'] raises
\* KeyError when there is no such key.
lnprob_grad(th, dl) ==
    IF "mass" \notin DOMAIN theta_desc
    THEN [err |-> "KeyError", params |-> params, ret |-> NoRet, invoked |-> FALSE]
    ELSE IF ~(Len(th) = theta_desc["mass"].N /\ iteritems = <<"mass">>)
    THEN [err |-> "ValueError: not calculated", params |-> params, ret |-> NoRet,
          invoked |-> FALSE]
    ELSE GradientBody(th, dl)

-----------------------------------------------------------------------------
(* The calls of the prior and posterior methods *)

\* Blocks for the prior and posterior methods: either prior, with or without
\* the key 'prior_gradient_function'.
PriorBlocks ==
    {BlockOf(i0, N, fn, ScalarArgs, opt) :
        i0 \in 0..(MaxDim - 1), N \in 1..MaxDim, fn \in {"tophat", "logarithmic"},
        opt \in {NoKeys}}
    \cup {BlockOf(i0, N, fn, ScalarArgs, "prior_gradient_function" :> fn) :
        i0 \in 0..(MaxDim - 1), N \in 1..MaxDim, fn \in {"tophat", "logarithmic"}}

PriorDescriptors == {d \in DescriptorsOver(PriorBlocks) : IsPartition(d)}

\* The keyword parameters of the constructor, as np.atleast_1d keeps them.
Kwargs == {NoKeys, "jitter" :> <<1>>, "phot_jitter" :> <<1>>}

\* obs with and without a spectrum and photometry.
Observations == [spectrum : BOOLEAN, filters : BOOLEAN]

ConstructPosterior ==
    /\ pc = "new"
    /\ \E d \in PriorDescriptors, kw \in Kwargs, o \in Observations : Construct(d, kw, o)

\* The flat vectors given to the prior and posterior methods.
PriorVectors == SeqsOf(PriorVals, 0..(MaxDim + 1))

\* What a call leaves: one call per object is followed, since the methods read
\* of self.params only the keyword parameters, which no method overwrites.
Outcome(op, th, r) ==
    /\ pc = "idle"
    /\ call = NoCall
    /\ Len(th) \in (ndim - 1)..(ndim + 1)
    /\ call' = [op |-> op, theta |-> th]
    /\ err' = r.err
    /\ params' = r.params
    /\ ret' = r.ret
    /\ invoked' = r.invoked
    /\ UNCHANGED <<configVars, reflectVars>>

CallPriorProduct ==
    \E th \in PriorVectors :
        Outcome("prior_product", th,
                [err |-> "none", params |-> params,
                 ret |-> [kind |-> "scalar", x |-> prior_product(th)], invoked |-> FALSE])

CallLnpPriorGrad ==
    \E th \in PriorVectors :
        Outcome("lnp_prior_grad", th,
                [err |-> lnp_prior_grad(th).err, params |-> params,
                 ret |-> lnp_prior_grad(th).ret, invoked |-> FALSE])

CallLnprob ==
    \E th \in PriorVectors, ls \in LikVals, lp \in LikVals :
        Outcome("lnprob", th, lnprob(th, ls, lp))

CallLnprobGrad ==
    \E th \in PriorVectors, dl \in GradVals :
        Outcome("lnprob_grad", th, lnprob_grad(th, dl))

NextPosterior ==
    \/ ConstructPosterior
    \/ CallPriorProduct
    \/ CallLnpPriorGrad
    \/ CallLnprob
    \/ CallLnprobGrad

SpecPosterior == Init /\ [][NextPosterior]_vars

-----------------------------------------------------------------------------
(* Claims about the prior and posterior methods *)

\* C5: posterior short-circuit. An lnprob on a vector whose prior_product is
\* not finite returns -inf, raises nothing, and does not invoke the model
\* collaborator.
C5_ShortCircuit ==
    (call.op = "lnprob" /\ ~isfinite(prior_product(call.theta)))
        => /\ err = "none"
           /\ ret = [kind |-> "scalar", x |-> NegInf]
           /\ ~invoked

\* C5 witness: an lnprob on a vector of length ndim whose prior is nan, and one
\* whose prior is -inf, returned -inf.
C5_Witness ==
    /\ call.op = "lnprob" /\ Len(call.theta) = ndim
    /\ prior_product(call.theta).k \in {"nan", "ninf"}
    /\ ret = [kind |-> "scalar", x |-> NegInf]

\* C6: gradient zero-fill. With a block that has no prior gradient function,
\* lnp_prior_grad on a vector of length ndim returns, without an error, a
\* vector of length ndim that is zero at every index of that block.
C6_ZeroFill ==
    (/\ call.op = "lnp_prior_grad" /\ Len(call.theta) = ndim
     /\ \E p \in DOMAIN theta_desc : "prior_gradient_function" \notin DOMAIN theta_desc[p])
        => /\ err = "none"
           /\ ret.kind = "vector"
           /\ Len(ret.v) = ndim
           /\ \A p \in DOMAIN theta_desc :
                "prior_gradient_function" \notin DOMAIN theta_desc[p]
                    => \A i \in 1..ndim :
                         (theta_desc[p].i0 < i /\ i <= theta_desc[p].i0 + theta_desc[p].N)
                            => ret.v[i] = Fin(0)

\* The gate of lnprob_grad must refuse: a block besides 'mass', or a vector
\* whose length is not that of 'mass'.
Unsupported(th) ==
    /\ "mass" \in DOMAIN theta_desc
    /\ (DOMAIN theta_desc # {"mass"} \/ Len(th) # theta_desc["mass"].N)

====
